---- MODULE Spec2Model ----
(***************************************************************************)
(* Model of the per-frame Gaussian-splat pass (src/src/splat_pass.rs):     *)
(* construction (SplatPass::new, compute_sort_stages,                      *)
(* build_sort_uniform_data), the per-frame prepare/execute handlers, and   *)
(* the execution of the recorded command list on the device.  The three    *)
(* shader programs (clear_sort, preprocess, sort) are not part of the      *)
(* host sources; their steps follow the shader contracts of spec.md 4.5.   *)
(***************************************************************************)
EXTENDS Integers, Sequences, FiniteSets, TLC

(* ------------------------------ bounds -------------------------------- *)

\* Largest Gaussian count handed to SplatPass::new in the construction
\* specification SpecNew.
MaxCount == 64

\* Largest Gaussian count in the frame specification Spec.
MaxGaussians == 2

\* Largest Gaussian count in the sorting-network specification SpecSort.
MaxSortCount == 7

\* Largest Gaussian count in the single-stage specification SpecStage.
MaxStageCount == 5

\* Depth is quantised into the levels 0 .. DepthLevels - 1 (d = level /
\* DepthLevels), one level per Gaussian so that all can lie at distinct depths.
DepthLevels == MaxGaussians

(* ------------------------- program constants -------------------------- *)

WORKGROUP_SIZE == 256

SORT_UNIFORM_ALIGNMENT == 256

\* Counts, indices and byte offsets are u32 in the program.  Every such value
\* of this model stays below 2^31 (the largest is a byte offset of the
\* sort-uniform data), so their arithmetic never wraps and is written unreduced.
\* Sort keys use the whole u32 range and are kept as two 16-bit halves <<hi, lo>>.

\* 0xFFFFFFFF, the key clear_sort primes every slot with.
SENTINEL_KEY == << 65535, 65535 >>

\* 0xFFFFFF00, the scale of depth_to_u32: floor(d * 0xFFFFFF00).
DEPTH_SCALE == << 65535, 65280 >>

\* The contents of a zero-initialised key slot.
ZERO_KEY == << 0, 0 >>

(* ---------------------------- u32 helpers ----------------------------- *)

RECURSIVE Pow2(_)
Pow2(n) == IF n = 0 THEN 1 ELSE 2 * Pow2(n - 1)

\* Number of significant bits of x (32 - leading_zeros(x)).
RECURSIVE BitLen(_)
BitLen(x) == IF x = 0 THEN 0 ELSE 1 + BitLen(x \div 2)

\* A next_power_of_two that takes the bit length of x instead of x - 1.
next_power_of_two_above(x) ==
    LET one_less == IF x <= 1 THEN 0 ELSE Pow2(BitLen(x)) - 1
    IN  one_less + 1

\* u32::next_power_of_two: one_less_than_next_power_of_two(x) + 1, where
\* one_less is 0 for x <= 1 and otherwise u32::MAX >> leading_zeros(x - 1);
\* no count of this model brings the addition to 2^32.
next_power_of_two(x) ==
    LET one_less == IF x <= 1 THEN 0 ELSE Pow2(BitLen(x - 1)) - 1
    IN  one_less + 1

\* (n as f64).log2() as u32: exact for the powers of two it is called with,
\* truncated toward zero otherwise.
RECURSIVE log2_u32(_)
log2_u32(n) == IF n <= 1 THEN 0 ELSE 1 + log2_u32(n \div 2)

\* a.div_ceil(b)
div_ceil(a, b) == (a + b - 1) \div b

\* bytemuck::bytes_of of one u32 (little endian).
LE32(x) == << x % 256, (x \div 256) % 256, (x \div 65536) % 256, (x \div 16777216) % 256 >>

\* The u32 stored at byte offset off (0-based) of data.
ReadU32(data, off) ==
    data[off + 1] + 256 * data[off + 2] + 65536 * data[off + 3] + 16777216 * data[off + 4]

Zeros(n) == [k \in 1..n |-> 0]

(* ------------------------- sort plan generator ------------------------ *)

\* A block size shifted from 1 instead of 2: 1u32 << outer_step.
stages_block_size_one(outer_step) == Pow2(outer_step)

\* let block_size = 2u32 << outer_step;  (compute_sort_stages)
stages_block_size(outer_step) == 2 * Pow2(outer_step)

\* A dynamic offset that packs the 16-byte blocks without the alignment stride.
stage_dynamic_offset_packed(stage_index) == stage_index * 16

\* dynamic_offset: stage_index * SORT_UNIFORM_ALIGNMENT as u32
stage_dynamic_offset(stage_index) == stage_index * SORT_UNIFORM_ALIGNMENT

\* The while loop of compute_sort_stages: one stage pushed per
\* comparison_distance, halving until it reaches 0.  st = [stages, stage_index].
RECURSIVE StagesWhile(_, _)
StagesWhile(st, comparison_distance) ==
    IF comparison_distance >= 1
    THEN StagesWhile(
            [stages |-> Append(st.stages,
                [dynamic_offset |-> stage_dynamic_offset(st.stage_index)]),
             stage_index |-> st.stage_index + 1],
            comparison_distance \div 2)
    ELSE st

\* The for loop of compute_sort_stages over outer_step .. log_n - 1.
RECURSIVE StagesFor(_, _, _)
StagesFor(st, outer_step, log_n) ==
    IF outer_step >= log_n THEN st
    ELSE LET block_size == stages_block_size(outer_step)
         IN  StagesFor(StagesWhile(st, block_size \div 2), outer_step + 1, log_n)

compute_sort_stages(padded_count) ==
    IF padded_count <= 1 THEN << >>
    ELSE StagesFor([stages |-> << >>, stage_index |-> 0], 0,
                   log2_u32(padded_count)).stages

\* A block size shifted from 1 instead of 2: 1u32 << outer_step.
data_block_size_one(outer_step) == Pow2(outer_step)

\* let block_size = 2u32 << outer_step;  (build_sort_uniform_data)
data_block_size(outer_step) == 2 * Pow2(outer_step)

\* A parameter block with block_size and comparison_distance exchanged.
SortUniformsBytesSwapped(element_count, block_size, comparison_distance) ==
    LE32(element_count) \o LE32(comparison_distance) \o LE32(block_size) \o LE32(0)

\* bytemuck::bytes_of(&SortUniforms { element_count, block_size,
\* comparison_distance, _pad: 0 }).
SortUniformsBytes(element_count, block_size, comparison_distance) ==
    LE32(element_count) \o LE32(block_size) \o LE32(comparison_distance) \o LE32(0)

\* The while loop of build_sort_uniform_data.  st = [data, stage_index].
RECURSIVE DataWhile(_, _, _, _)
DataWhile(st, padded_count, block_size, comparison_distance) ==
    IF comparison_distance >= 1
    THEN LET offset_in_bytes == st.stage_index * SORT_UNIFORM_ALIGNMENT
             padded == IF Len(st.data) < offset_in_bytes
                       THEN st.data \o Zeros(offset_in_bytes - Len(st.data))
                       ELSE st.data
         IN  DataWhile(
                [data |-> padded \o SortUniformsBytes(padded_count, block_size,
                                                      comparison_distance),
                 stage_index |-> st.stage_index + 1],
                padded_count, block_size, comparison_distance \div 2)
    ELSE st

RECURSIVE DataFor(_, _, _, _)
DataFor(st, padded_count, outer_step, log_n) ==
    IF outer_step >= log_n THEN st
    ELSE LET block_size == data_block_size(outer_step)
         IN  DataFor(DataWhile(st, padded_count, block_size, block_size \div 2),
                     padded_count, outer_step + 1, log_n)

\* The trailing loop of build_sort_uniform_data: pad to a multiple of 4.
PadTo4(data) == data \o Zeros((4 - (Len(data) % 4)) % 4)

build_sort_uniform_data(padded_count, stages) ==
    IF stages = << >> THEN << >>
    ELSE PadTo4(DataFor([data |-> << >>, stage_index |-> 0], padded_count, 0,
                        log2_u32(padded_count)).data)

(* ------------------------------- state -------------------------------- *)

VARIABLES
    pc,                         \* "new", "idle", "prepare", "execute", "gpu"
    gaussians_len,              \* gaussians.len() handed to SplatPass::new
    gaussian_count,             \* SplatPass fields
    padded_count,
    sort_stages,
    sort_uniform_buffer,        \* bytes of the sort-uniform buffer
    draw_indirect_buffer,       \* <<vertex_count, instance_count, first_vertex, first_instance>>
    draw_indirect_reset_buffer,
    uniform_buffer,             \* [gaussian_count, padded_count, view]
    splat_buffer,               \* slot j (at index j + 1): the projected splat
    sort_keys_buffer,
    sort_values_buffer,
    camera,                     \* the world's active camera in the current frame
    encoder,                    \* commands recorded by execute in the current frame
    attachments_acquired,       \* get_color_attachment / get_depth_attachment called
    execute_result,             \* what execute returned in the current frame
    gpu_pc,                     \* number of recorded commands the device has run
    pass_running,               \* the preprocess pass has launched its invocations
    pending,                    \* launched preprocess invocations that have not run
    inflight,                   \* <<i, j>>: invocation i holds slot j, not yet written
    drawn,                      \* what the last indirect draw read
    raw_rotation,               \* RawGaussian::rotation handed to GpuGaussian::from
    gpu_rotation,               \* GpuGaussian::rotation it returned
    ply_data,                   \* the bytes handed to load_ply_from_bytes
    ply_result                  \* what load_ply_from_bytes returned

vars == << pc, gaussians_len, gaussian_count, padded_count, sort_stages,
           sort_uniform_buffer, draw_indirect_buffer, draw_indirect_reset_buffer,
           uniform_buffer, splat_buffer, sort_keys_buffer, sort_values_buffer,
           camera, encoder, attachments_acquired, execute_result, gpu_pc,
           pass_running, pending, inflight, drawn, raw_rotation, gpu_rotation,
           ply_data, ply_result >>

\* The state of the loading stage: the layout adapter and the PLY reader.
loader_state == << raw_rotation, gpu_rotation, ply_data, ply_result >>

pass_fields == << gaussian_count, padded_count, sort_stages, sort_uniform_buffer,
                  draw_indirect_reset_buffer >>

gpu_buffers == << draw_indirect_buffer, splat_buffer, sort_keys_buffer,
                  sort_values_buffer >>

preprocess_state == << pass_running, pending, inflight >>

(* ---------------------------- construction ---------------------------- *)

NoCamera == [present |-> FALSE, view |-> << >>]

\* No record is being adapted and no file is being read.
LoaderIdle ==
    /\ raw_rotation = << >>
    /\ gpu_rotation = << >>
    /\ ply_data = << >>
    /\ ply_result = "none"

\* No pass exists yet; the Gaussian slice to build it from has length n.
PassUnbuilt(n) ==
    /\ gaussians_len = n
    /\ gaussian_count = 0
    /\ padded_count = 0
    /\ sort_stages = << >>
    /\ sort_uniform_buffer = << >>
    /\ draw_indirect_buffer = << >>
    /\ draw_indirect_reset_buffer = << >>
    /\ uniform_buffer = [gaussian_count |-> 0, padded_count |-> 0, view |-> << >>]
    /\ splat_buffer = << >>
    /\ sort_keys_buffer = << >>
    /\ sort_values_buffer = << >>
    /\ camera = NoCamera
    /\ encoder = << >>
    /\ attachments_acquired = FALSE
    /\ execute_result = "none"
    /\ gpu_pc = 0
    /\ pass_running = FALSE
    /\ pending = {}
    /\ inflight = {}
    /\ drawn = [done |-> FALSE, header |-> << >>, instances |-> << >>]

\* The state before SplatPass::new has run, for a Gaussian slice of length n.
Unconstructed(n) ==
    /\ pc = "new"
    /\ PassUnbuilt(n)
    /\ LoaderIdle

\* let padded_count = gaussian_count.next_power_of_two();
PaddedCountOf(count) == next_power_of_two(count)

\* DrawIndirect { vertex_count: 6, instance_count: 0, first_vertex: 0,
\* first_instance: 0 }, the initial contents of both indirect buffers.
DrawIndirectInit == << 6, 0, 0, 0 >>

\* Contents handed over as they are, without the dummy for an empty plan.
SortUniformContentsNoDummy(data) == data

\* The contents handed to the sort-uniform buffer: 256 zero bytes when the
\* plan is empty.
SortUniformContents(data) == IF data = << >> THEN Zeros(256) ELSE data

\* SplatPass::new.  Buffers created without contents are zero-initialised.
New ==
    /\ pc = "new"
    /\ LET count  == gaussians_len
           padded == PaddedCountOf(count)
           stages == compute_sort_stages(padded)
       IN  /\ gaussian_count' = count
           /\ padded_count' = padded
           /\ sort_stages' = stages
           /\ sort_uniform_buffer' =
                  SortUniformContents(build_sort_uniform_data(padded, stages))
           /\ splat_buffer' = Zeros(padded)
           /\ sort_keys_buffer' = [k \in 1..padded |-> ZERO_KEY]
           /\ sort_values_buffer' = Zeros(padded)
    /\ draw_indirect_buffer' = DrawIndirectInit
    /\ draw_indirect_reset_buffer' = DrawIndirectInit
    /\ pc' = "idle"
    /\ UNCHANGED << gaussians_len, uniform_buffer, camera, encoder,
                    attachments_acquired, execute_result, gpu_pc, preprocess_state,
                    drawn, loader_state >>

InitNew == \E n \in 0..MaxCount : Unconstructed(n)

SpecNew == InitNew /\ [][New]_vars

(* ------------------------------ shaders ------------------------------- *)

\* Unsigned comparison of two u32 keys held as <<hi, lo>>.
KeyLess(a, b) == a[1] < b[1] \/ (a[1] = b[1] /\ a[2] < b[2])

KeyLeq(a, b) == ~KeyLess(b, a)

\* depth_to_u32(d) = floor(d * 0xFFFFFF00) for the depth d = level / DepthLevels,
\* computed by long division on the two halves of the scale.
depth_to_u32(level) ==
    LET hi   == (level * DEPTH_SCALE[1]) \div DepthLevels
        rem  == (level * DEPTH_SCALE[1]) % DepthLevels
        rest == (rem * 65536 + level * DEPTH_SCALE[2]) \div DepthLevels
    IN  << hi + (rest \div 65536), rest % 65536 >>

\* A culled Gaussian: behind the near plane, too small, or off screen.
CULLED == -1

\* What a camera makes of n Gaussians: each is culled or lands on a depth level.
Views(n) == [1..n -> {CULLED} \cup (0..(DepthLevels - 1))]

\* clear_sort over `launched` invocations: invocation i < padded_count writes
\* keys[i] = 0xFFFFFFFF and values[i] = i.
clear_sort(keys, values, launched, count) ==
    [keys   |-> [x \in 1..Len(keys) |->
                    IF x - 1 < launched /\ x - 1 < count THEN SENTINEL_KEY ELSE keys[x]],
     values |-> [x \in 1..Len(values) |->
                    IF x - 1 < launched /\ x - 1 < count THEN x - 1 ELSE values[x]]]

\* The comparator's decision: the pair (i, j = i + D) is out of order for the
\* direction of i's block.
sort_out_of_order(ki, kj, i, block_size) ==
    LET ascending == ((i \div block_size) % 2 = 0)
    IN  IF ascending THEN KeyLess(kj, ki) ELSE KeyLess(ki, kj)

\* The pair of slots invocation k compares: i = (k / D) * 2D + (k mod D) and
\* j = i + D.
sort_pair(k, comparison_distance) ==
    LET i == (k \div comparison_distance) * (2 * comparison_distance)
                 + (k % comparison_distance)
    IN  [i |-> i, j |-> i + comparison_distance]

\* One invocation k of the sort shader on kv = [keys, values].
sort_invocation(kv, k, element_count, block_size, comparison_distance) ==
    LET i == sort_pair(k, comparison_distance).i
        j == sort_pair(k, comparison_distance).j
    IN  IF j >= element_count \/ j >= Len(kv.keys) THEN kv
        ELSE IF sort_out_of_order(kv.keys[i + 1], kv.keys[j + 1], i, block_size)
             THEN [keys   |-> [kv.keys EXCEPT ![i + 1] = kv.keys[j + 1],
                                              ![j + 1] = kv.keys[i + 1]],
                   values |-> [kv.values EXCEPT ![i + 1] = kv.values[j + 1],
                                                ![j + 1] = kv.values[i + 1]]]
             ELSE kv

\* All invocations k .. launched - 1 of one sort dispatch.  An invocation
\* k >= element_count has j = i + D > k >= element_count and returns, so the
\* walk stops there.
RECURSIVE sort_dispatch(_, _, _, _, _, _)
sort_dispatch(kv, k, launched, element_count, block_size, comparison_distance) ==
    IF k >= launched \/ k >= element_count THEN kv
    ELSE sort_dispatch(
            sort_invocation(kv, k, element_count, block_size, comparison_distance),
            k + 1, launched, element_count, block_size, comparison_distance)

(* ------------------------------- frames ------------------------------- *)

Cameras(n) == {NoCamera} \cup {[present |-> TRUE, view |-> v] : v \in Views(n)}

NotDrawn == [done |-> FALSE, header |-> << >>, instances |-> << >>]

\* The host starts a frame: the world has its camera (or none) and the render
\* graph hands out a fresh encoder.
BeginFrame ==
    /\ pc = "idle"
    /\ \E cam \in Cameras(gaussians_len) : camera' = cam
    /\ encoder' = << >>
    /\ attachments_acquired' = FALSE
    /\ execute_result' = "none"
    /\ gpu_pc' = 0
    /\ drawn' = NotDrawn
    /\ pc' = "prepare"
    /\ UNCHANGED << gaussians_len, pass_fields, gpu_buffers, uniform_buffer,
                    preprocess_state, loader_state >>

\* SplatPass::prepare: returns early without a camera, else writes the
\* Uniforms block.
Prepare ==
    /\ pc = "prepare"
    /\ uniform_buffer' =
          IF ~camera.present THEN uniform_buffer
          ELSE [gaussian_count |-> gaussian_count,
                padded_count   |-> padded_count,
                view           |-> camera.view]
    /\ pc' = "execute"
    /\ UNCHANGED << gaussians_len, pass_fields, gpu_buffers, camera, encoder,
                    attachments_acquired, execute_result, gpu_pc, preprocess_state,
                    drawn, loader_state >>

Command(op, pipeline, workgroups, dynamic_offset) ==
    [op |-> op, pipeline |-> pipeline, workgroups |-> workgroups,
     dynamic_offset |-> dynamic_offset]

\* An execute without the early return for an empty Gaussian set.
execute_skips_always(count) == FALSE

\* if self.gaussian_count == 0 { return Ok(..) }
execute_skips(count) == count = 0

\* An execute that omits the reset copy of the indirect-draw header.
execute_prologue_no_reset == << >>

\* The command execute records before the compute passes: the reset copy.
execute_prologue ==
    << Command("copy_buffer_to_buffer", "none", 0, 0) >>

\* The commands SplatPass::execute records when it does not return early.
RecordedCommands ==
    LET num_pairs       == padded_count \div 2
        sort_workgroups == div_ceil(num_pairs, WORKGROUP_SIZE)
    IN  execute_prologue
        \o << Command("compute_pass", "clear_sort",
                      div_ceil(padded_count, WORKGROUP_SIZE), 0),
              Command("compute_pass", "preprocess",
                      div_ceil(gaussian_count, WORKGROUP_SIZE), 0) >>
        \o [s \in 1..Len(sort_stages) |->
               Command("compute_pass", "sort", sort_workgroups,
                       sort_stages[s].dynamic_offset)]
        \o << Command("render_pass", "render", 0, 0) >>

\* SplatPass::execute.  The "color" and "depth" slots are bound by
\* configure_render_graph, so both attachment getters succeed and execute
\* returns Ok on either path.
Execute ==
    /\ pc = "execute"
    /\ IF execute_skips(gaussian_count)
       THEN UNCHANGED << encoder, attachments_acquired >>
       ELSE /\ encoder' = encoder \o RecordedCommands
            /\ attachments_acquired' = TRUE
    /\ execute_result' = "ok"
    /\ pc' = "gpu"
    /\ UNCHANGED << gaussians_len, pass_fields, gpu_buffers, uniform_buffer,
                    camera, gpu_pc, preprocess_state, drawn, loader_state >>

(* --------------------- the device runs the commands -------------------- *)

HasCommand == pc = "gpu" /\ gpu_pc < Len(encoder)

CurrentCommand == encoder[gpu_pc + 1]

Launched(cmd) == cmd.workgroups * WORKGROUP_SIZE

InstanceCount == draw_indirect_buffer[2]

host_state == << pc, gaussians_len, pass_fields, uniform_buffer, camera, encoder,
                 attachments_acquired, execute_result, loader_state >>

\* copy_buffer_to_buffer(reset, 0, indirect, 0, 16)
GpuCopy ==
    /\ HasCommand
    /\ CurrentCommand.op = "copy_buffer_to_buffer"
    /\ draw_indirect_buffer' = draw_indirect_reset_buffer
    /\ gpu_pc' = gpu_pc + 1
    /\ UNCHANGED << host_state, splat_buffer, sort_keys_buffer,
                    sort_values_buffer, preprocess_state, drawn >>

\* The clear_sort pass.
GpuClearSort ==
    /\ HasCommand
    /\ CurrentCommand.pipeline = "clear_sort"
    /\ LET r == clear_sort(sort_keys_buffer, sort_values_buffer,
                           Launched(CurrentCommand), uniform_buffer.padded_count)
       IN  /\ sort_keys_buffer' = r.keys
           /\ sort_values_buffer' = r.values
    /\ gpu_pc' = gpu_pc + 1
    /\ UNCHANGED << host_state, draw_indirect_buffer, splat_buffer,
                    preprocess_state, drawn >>

\* The preprocess pass launches its invocations.
GpuPreprocessLaunch ==
    /\ HasCommand
    /\ CurrentCommand.pipeline = "preprocess"
    /\ ~pass_running
    /\ pass_running' = TRUE
    /\ pending' = 0..(Launched(CurrentCommand) - 1)
    /\ UNCHANGED << host_state, gpu_buffers, gpu_pc, inflight, drawn >>

\* Invocations with index >= gaussian_count return at once.
PreprocessOutOfRange ==
    /\ pass_running
    /\ {i \in pending : i >= uniform_buffer.gaussian_count} # {}
    /\ pending' = {i \in pending : i < uniform_buffer.gaussian_count}
    /\ UNCHANGED << host_state, gpu_buffers, gpu_pc, pass_running, inflight, drawn >>

\* A culled invocation returns without touching the counter or any slot.
PreprocessCull(i) ==
    /\ pass_running
    /\ i \in pending
    /\ i < uniform_buffer.gaussian_count
    /\ uniform_buffer.view[i + 1] = CULLED
    /\ pending' = pending \ {i}
    /\ UNCHANGED << host_state, gpu_buffers, gpu_pc, pass_running, inflight, drawn >>

\* A surviving invocation obtains its slot: j = atomicAdd(instance_count, 1).
PreprocessReserve(i) ==
    /\ pass_running
    /\ i \in pending
    /\ i < uniform_buffer.gaussian_count
    /\ uniform_buffer.view[i + 1] # CULLED
    /\ inflight' = inflight \cup {<< i, InstanceCount >>}
    /\ draw_indirect_buffer' = [draw_indirect_buffer EXCEPT ![2] = InstanceCount + 1]
    /\ pending' = pending \ {i}
    /\ UNCHANGED << host_state, splat_buffer, sort_keys_buffer, sort_values_buffer,
                    gpu_pc, pass_running, drawn >>

\* It writes splat[j], keys[j] = depth_to_u32(d) and values[j] = j.
PreprocessWrite(i, j) ==
    /\ pass_running
    /\ << i, j >> \in inflight
    /\ splat_buffer' = [splat_buffer EXCEPT ![j + 1] = i + 1]
    /\ sort_keys_buffer' =
          [sort_keys_buffer EXCEPT ![j + 1] = depth_to_u32(uniform_buffer.view[i + 1])]
    /\ sort_values_buffer' = [sort_values_buffer EXCEPT ![j + 1] = j]
    /\ inflight' = inflight \ {<< i, j >>}
    /\ UNCHANGED << host_state, draw_indirect_buffer, gpu_pc, pass_running,
                    pending, drawn >>

\* The pass ends when every invocation has returned.
GpuPreprocessEnd ==
    /\ HasCommand
    /\ pass_running
    /\ pending = {}
    /\ inflight = {}
    /\ pass_running' = FALSE
    /\ gpu_pc' = gpu_pc + 1
    /\ UNCHANGED << host_state, gpu_buffers, pending, inflight, drawn >>

\* One sort pass: the parameters are the 16 bytes at the pass's dynamic offset.
GpuSort ==
    /\ HasCommand
    /\ CurrentCommand.pipeline = "sort"
    /\ LET off == CurrentCommand.dynamic_offset
           r   == sort_dispatch(
                     [keys |-> sort_keys_buffer, values |-> sort_values_buffer],
                     0, Launched(CurrentCommand),
                     ReadU32(sort_uniform_buffer, off),
                     ReadU32(sort_uniform_buffer, off + 4),
                     ReadU32(sort_uniform_buffer, off + 8))
       IN  /\ sort_keys_buffer' = r.keys
           /\ sort_values_buffer' = r.values
    /\ gpu_pc' = gpu_pc + 1
    /\ UNCHANGED << host_state, draw_indirect_buffer, splat_buffer,
                    preprocess_state, drawn >>

\* The render pass: draw_indirect reads the header; instance k reads
\* values[k] and the splat it indexes.
GpuRender ==
    /\ HasCommand
    /\ CurrentCommand.op = "render_pass"
    /\ drawn' = [done      |-> TRUE,
                 header    |-> draw_indirect_buffer,
                 instances |-> [k \in 1..InstanceCount |-> sort_values_buffer[k]]]
    /\ gpu_pc' = gpu_pc + 1
    /\ UNCHANGED << host_state, gpu_buffers, preprocess_state >>

\* The submitted commands have run; the frame is over.
EndFrame ==
    /\ pc = "gpu"
    /\ gpu_pc = Len(encoder)
    /\ pc' = "idle"
    /\ UNCHANGED << gaussians_len, pass_fields, gpu_buffers, uniform_buffer, camera,
                    encoder, attachments_acquired, execute_result, gpu_pc,
                    preprocess_state, drawn, loader_state >>

Init == \E n \in 0..MaxGaussians : Unconstructed(n)

Next ==
    \/ New
    \/ BeginFrame
    \/ Prepare
    \/ Execute
    \/ GpuCopy
    \/ GpuClearSort
    \/ GpuPreprocessLaunch
    \/ PreprocessOutOfRange
    \/ \E i \in pending : PreprocessCull(i)
    \/ \E i \in pending : PreprocessReserve(i)
    \/ \E p \in inflight : PreprocessWrite(p[1], p[2])
    \/ GpuPreprocessEnd
    \/ GpuSort
    \/ GpuRender
    \/ EndFrame

Spec == Init /\ [][Next]_vars

(* --------------- the sorting network on arbitrary inputs --------------- *)

\* All orderings of the elements of S, as sequences.
RECURSIVE Orderings(_)
Orderings(S) ==
    IF S = {} THEN {<< >>}
    ELSE UNION {{<< x >> \o p : p \in Orderings(S \ {x})} : x \in S}

\* The state in which the device has run the reset copy, clear_sort and
\* preprocess of a frame of a pass built for n Gaussians: perm, a permutation of
\* the distinct live keys 0 .. Len(perm) - 1, fills the head of the key buffer,
\* 0xFFFFFFFF fills the rest, and values[i] = i.
AfterPreprocess(n, perm) ==
    /\ pc = "gpu"
    /\ gaussians_len = n
    /\ gaussian_count = n
    /\ padded_count = PaddedCountOf(n)
    /\ sort_stages = compute_sort_stages(padded_count)
    /\ sort_uniform_buffer =
          SortUniformContents(build_sort_uniform_data(padded_count, sort_stages))
    /\ draw_indirect_buffer = << 6, Len(perm), 0, 0 >>
    /\ draw_indirect_reset_buffer = DrawIndirectInit
    /\ camera = [present |-> TRUE, view |-> [i \in 1..n |-> IF i <= Len(perm) THEN 0 ELSE CULLED]]
    /\ uniform_buffer = [gaussian_count |-> n, padded_count |-> padded_count,
                         view |-> camera.view]
    /\ splat_buffer = [x \in 1..padded_count |-> IF x <= Len(perm) THEN x ELSE 0]
    /\ sort_keys_buffer = [x \in 1..padded_count |->
                              IF x <= Len(perm) THEN << 0, perm[x] >> ELSE SENTINEL_KEY]
    /\ sort_values_buffer = [x \in 1..padded_count |-> x - 1]
    /\ encoder = RecordedCommands
    /\ attachments_acquired = TRUE
    /\ execute_result = "ok"
    /\ gpu_pc = 3
    /\ pass_running = FALSE
    /\ pending = {}
    /\ inflight = {}
    /\ drawn = NotDrawn
    /\ LoaderIdle

InitSort ==
    \E n \in 1..MaxSortCount : \E live \in 0..n :
        \E perm \in Orderings(0..(live - 1)) : AfterPreprocess(n, perm)

NextSort == GpuSort \/ GpuRender

SpecSort == InitSort /\ [][NextSort]_vars

\* The same passes on fewer Gaussians, for the properties that follow every
\* order of a stage's invocations.
InitStage ==
    \E n \in 1..MaxStageCount : \E live \in 0..n :
        \E perm \in Orderings(0..(live - 1)) : AfterPreprocess(n, perm)

SpecStage == InitStage /\ [][NextSort]_vars

(* ------------------- recording the first frame's commands -------------- *)

\* The state in which SplatPass::new has built a pass for n Gaussians and the
\* host has started the first frame with camera cam.
AfterBeginFrame(n, cam) ==
    /\ pc = "prepare"
    /\ gaussians_len = n
    /\ gaussian_count = n
    /\ padded_count = PaddedCountOf(n)
    /\ sort_stages = compute_sort_stages(padded_count)
    /\ sort_uniform_buffer =
          SortUniformContents(build_sort_uniform_data(padded_count, sort_stages))
    /\ draw_indirect_buffer = DrawIndirectInit
    /\ draw_indirect_reset_buffer = DrawIndirectInit
    /\ uniform_buffer = [gaussian_count |-> 0, padded_count |-> 0, view |-> << >>]
    /\ splat_buffer = Zeros(padded_count)
    /\ sort_keys_buffer = [k \in 1..padded_count |-> ZERO_KEY]
    /\ sort_values_buffer = Zeros(padded_count)
    /\ camera = cam
    /\ encoder = << >>
    /\ attachments_acquired = FALSE
    /\ execute_result = "none"
    /\ gpu_pc = 0
    /\ pass_running = FALSE
    /\ pending = {}
    /\ inflight = {}
    /\ drawn = NotDrawn
    /\ LoaderIdle

\* No camera, or one that sees every Gaussian at depth level 0.
InitRecord ==
    \E n \in 0..MaxCount :
        \E cam \in {NoCamera, [present |-> TRUE, view |-> [i \in 1..n |-> 0]]} :
            AfterBeginFrame(n, cam)

NextRecord == Prepare \/ Execute

SpecRecord == InitRecord /\ [][NextRecord]_vars

(* --------------------------- layout adapter --------------------------- *)

\* Largest magnitude of a stored quaternion component, in quanta.
MaxComponent == 6

\* The clamp 1e-8 of the divisor.  Quaternion components are exact multiples
\* of a quantum of 1e-9, so the clamp is 10 quanta; the arithmetic of the
\* adapter is carried out exactly on these multiples.
MIN_LENGTH == 10

Components == (0 - MaxComponent)..MaxComponent

\* qw * qw + qx * qx + qy * qy + qz * qz
SumSquares(q) == q[1] * q[1] + q[2] * q[2] + q[3] * q[3] + q[4] * q[4]

\* let length = (..).sqrt().max(1e-8), kept as its square: the square root is
\* monotone, so max(sqrt(s), m)^2 = max(s, m^2).
length_squared(rotation) ==
    IF SumSquares(rotation) >= MIN_LENGTH * MIN_LENGTH
    THEN SumSquares(rotation)
    ELSE MIN_LENGTH * MIN_LENGTH

\* GpuGaussian::from, the rotation field: [qw / length, .., qz / length],
\* kept as the numerators and the square of the common divisor.
GpuGaussianFrom(rotation) ==
    [numerators |-> rotation, length_squared |-> length_squared(rotation)]

\* The adapter is applied to one stored record.
From ==
    /\ pc = "from"
    /\ gpu_rotation' = GpuGaussianFrom(raw_rotation)
    /\ pc' = "adapted"
    /\ UNCHANGED << gaussians_len, pass_fields, gpu_buffers, uniform_buffer, camera,
                    encoder, attachments_acquired, execute_result, gpu_pc,
                    preprocess_state, drawn, raw_rotation, ply_data, ply_result >>

InitFrom ==
    /\ pc = "from"
    /\ PassUnbuilt(0)
    /\ raw_rotation \in [1..4 -> Components]
    /\ gpu_rotation = << >>
    /\ ply_data = << >>
    /\ ply_result = "none"

SpecFrom == InitFrom /\ [][From]_vars

\* The length L of the adapted quaternion, L^2 = s / d with s the sum of the
\* squared numerators and d the squared divisor, lies in [1 - 1/t, 1 + 1/t]:
\* (t - 1)^2 d <= t^2 s <= (t + 1)^2 d, rearranged so that no product
\* exceeds the integer range: t (t (d - s)) <= (2t - 1) d and
\* t (t (s - d)) <= (2t + 1) d.
UnitWithin(s, d, t) ==
    /\ (d > s) => (t * (d - s) <= ((2 * t - 1) * d) \div t)
    /\ (s > d) => (t * (s - d) <= ((2 * t + 1) * d) \div t)

\* C11 as stated: for every stored Gaussian the adapted quaternion has length
\* in [1 - 1e-6, 1 + 1e-6], also when the stored length is below 1e-8 (the
\* all-zero quaternion included) and the divisor is clamped to 1e-8.
C11_Original ==
    (pc = "adapted") =>
        UnitWithin(SumSquares(gpu_rotation.numerators),
                   gpu_rotation.length_squared, 1000000)

(* ----------------------------- PLY reader ----------------------------- *)

\* Largest vertex count a header line declares.
MaxVertexCount == 2

\* Largest number of header lines before the end_header line.
MaxHeaderLines == 2

\* std::mem::size_of::<RawGaussian>(): 62 f32 fields, packed.
RAW_GAUSSIAN_SIZE == 248

\* A header line, as parse_vertex_count sees it after trim(): one that does
\* not start with "element vertex ", one that does and carries a number, or
\* one that does and carries something that does not parse as usize.
HeaderLines ==
    {[kind |-> "other", count |-> 0], [kind |-> "vertex_bad", count |-> 0]}
        \cup {[kind |-> "vertex", count |-> n] : n \in 0..MaxVertexCount}

Headers == UNION {[1..len -> HeaderLines] : len \in 0..MaxHeaderLines}

\* Body lengths around the multiples of the record size.
BodyLengths ==
    {len \in {k * RAW_GAUSSIAN_SIZE + d : k \in 0..(MaxVertexCount + 1), d \in {-1, 0, 1}} :
        len >= 0}

\* The bytes handed to load_ply_from_bytes: the header lines, the terminator
\* of the end_header line ("none": the line is missing), whether the header
\* bytes are UTF-8, the number of bytes after the end_header line and whether
\* they start at an address aligned for RawGaussian.
PlyFiles ==
    [lines : Headers, ending : {"lf", "crlf", "none"}, utf8 : BOOLEAN,
     body_len : BodyLengths, body_aligned : BOOLEAN]

Panic(message) == [outcome |-> "panic", message |-> message, len |-> 0]

\* find_header_end: the CRLF needle is searched first, then the LF needle.
find_header_end(data) ==
    IF data.ending = "crlf" THEN [found |-> TRUE, line_ending_len |-> 2]
    ELSE IF data.ending = "lf" THEN [found |-> TRUE, line_ending_len |-> 1]
    ELSE [found |-> FALSE, line_ending_len |-> 0]

\* parse_vertex_count: the first line that starts with "element vertex "
\* decides; lines from index k on are still to be read.
RECURSIVE parse_vertex_count(_, _)
parse_vertex_count(lines, k) ==
    IF k > Len(lines)
    THEN Panic("PLY header does not contain 'element vertex' line")
    ELSE IF lines[k].kind = "vertex"
         THEN [outcome |-> "ok", message |-> "", len |-> lines[k].count]
         ELSE IF lines[k].kind = "vertex_bad"
              THEN Panic("Vertex count is not a valid number")
              ELSE parse_vertex_count(lines, k + 1)

\* An assertion that demands more than the expected size.
body_strictly_larger(body_len, expected_size) == body_len > expected_size

\* assert!(body.len() >= expected_size, ..)
body_large_enough(body_len, expected_size) == body_len >= expected_size

\* load_ply_from_bytes.  bytemuck::cast_slice panics when the body does not
\* start at an address aligned for RawGaussian.
load_ply_from_bytes(data) ==
    LET header == find_header_end(data)
    IN  IF ~header.found THEN Panic("Could not find 'end_header' in PLY file")
        ELSE IF ~data.utf8 THEN Panic("PLY header is not valid UTF-8")
        ELSE LET vertex_count == parse_vertex_count(data.lines, 1)
             IN  IF vertex_count.outcome = "panic" THEN vertex_count
                 ELSE LET expected_size == vertex_count.len * RAW_GAUSSIAN_SIZE
                      IN  IF ~body_large_enough(data.body_len, expected_size)
                          THEN Panic("PLY body too small")
                          ELSE IF ~data.body_aligned
                               THEN Panic("cast_slice: input not aligned")
                               ELSE [outcome |-> "ok", message |-> "",
                                     len |-> expected_size \div RAW_GAUSSIAN_SIZE]

\* One call of load_ply_from_bytes.
LoadPly ==
    /\ pc = "load"
    /\ ply_result' = load_ply_from_bytes(ply_data)
    /\ pc' = "loaded"
    /\ UNCHANGED << gaussians_len, pass_fields, gpu_buffers, uniform_buffer, camera,
                    encoder, attachments_acquired, execute_result, gpu_pc,
                    preprocess_state, drawn, raw_rotation, gpu_rotation, ply_data >>

InitPly ==
    /\ pc = "load"
    /\ PassUnbuilt(0)
    /\ raw_rotation = << >>
    /\ gpu_rotation = << >>
    /\ ply_data \in PlyFiles
    /\ ply_result = "none"

SpecPly == InitPly /\ [][LoadPly]_vars

\* The header lines that declare a vertex count, well-formed or not.
VertexLines == {k \in 1..Len(ply_data.lines) : ply_data.lines[k].kind # "other"}

\* The header is one load_ply_from_bytes reads a count N from: it ends with an
\* end_header line, is UTF-8, and its first "element vertex" line carries a
\* number.
HeaderDeclares(N) ==
    /\ ply_data.ending # "none"
    /\ ply_data.utf8
    /\ VertexLines # {}
    /\ \A k \in VertexLines :
          (\A other \in VertexLines : k <= other) =>
              ply_data.lines[k] = [kind |-> "vertex", count |-> N]

Loaded == pc = "loaded"

Constructed == pc # "new"

IsPow2(n) == \E e \in 0..30 : n = Pow2(e)

\* log_n * (log_n + 1) / 2
Triangle(log_n) == (log_n * (log_n + 1)) \div 2

\* The i-th (0-based) 16-byte parameter block of the sort-uniform data.
ParamBlock(i) ==
    [element_count       |-> ReadU32(sort_uniform_buffer, 256 * i),
     block_size          |-> ReadU32(sort_uniform_buffer, 256 * i + 4),
     comparison_distance |-> ReadU32(sort_uniform_buffer, 256 * i + 8),
     pad                 |-> ReadU32(sort_uniform_buffer, 256 * i + 12)]

\* The number of parameter blocks build_sort_uniform_data wrote: none when the
\* plan is empty (the buffer is then the 256-byte dummy).
BlocksWritten ==
    IF padded_count <= 1 THEN 0 ELSE (Len(sort_uniform_buffer) + 240) \div 256

\* The list of (block_size, comparison_distance) pairs in the data.
PlanPairs == [i \in 1..BlocksWritten |->
                 << ParamBlock(i - 1).block_size, ParamBlock(i - 1).comparison_distance >>]

\* C1: for every padded count N = 2^log_n the plan of compute_sort_stages has
\* exactly log_n * (log_n + 1) / 2 stages: 0 for N = 1, 1 for N = 2, 6 for N = 8.
C1_StageCount ==
    Constructed =>
        /\ \E log_n \in 0..30 :
              /\ padded_count = Pow2(log_n)
              /\ Len(sort_stages) = Triangle(log_n)
        /\ (padded_count = 1 => Len(sort_stages) = 0)
        /\ (padded_count = 2 => Len(sort_stages) = 1)
        /\ (padded_count = 8 => Len(sort_stages) = 6)

C1_Witness == Constructed /\ padded_count = 8 /\ Len(sort_stages) = 6

\* C2: the (block_size, comparison_distance) pairs written by
\* build_sort_uniform_data are, for outer_step = 0 .. log2(N) - 1 in order,
\* B = 2^(outer_step + 1) with D = B/2, B/4, ..., 1; every B is a power of two
\* in [2, N], every block carries element_count = N, and for N = 16 the list is
\* (2,1), (4,2), (4,1), (8,4), (8,2), (8,1), (16,8), (16,4), (16,2), (16,1).
C2_PlanPairs ==
    Constructed =>
        \E log_n \in 0..30 :
            /\ padded_count = Pow2(log_n)
            /\ BlocksWritten = Triangle(log_n)
            /\ \A outer_step \in 0..(log_n - 1) : \A t \in 0..outer_step :
                  LET b == ParamBlock(Triangle(outer_step) + t)
                  IN  /\ b.block_size = Pow2(outer_step + 1)
                      /\ b.comparison_distance = Pow2(outer_step - t)
                      /\ b.element_count = padded_count
                      /\ IsPow2(b.block_size)
                      /\ 2 <= b.block_size /\ b.block_size <= padded_count
            /\ (padded_count = 16 =>
                  PlanPairs = << <<2, 1>>, <<4, 2>>, <<4, 1>>, <<8, 4>>, <<8, 2>>,
                                 <<8, 1>>, <<16, 8>>, <<16, 4>>, <<16, 2>>, <<16, 1>> >>)

C2_Witness == Constructed /\ padded_count = 16 /\ Len(PlanPairs) = 10

\* C4: the i-th parameter block (element_count, block_size,
\* comparison_distance, pad = 0) occupies bytes [256 i, 256 i + 16) of the
\* sort-uniform data, the bytes between consecutive blocks are zero, and the
\* dynamic offset of the i-th stage is 256 i, so that the i-th sort dispatch
\* addresses the i-th stage's parameters.
C4_BlockLayout ==
    Constructed =>
        /\ BlocksWritten = Len(sort_stages)
        /\ \A i \in 0..(Len(sort_stages) - 1) :
              /\ sort_stages[i + 1].dynamic_offset = 256 * i
              /\ sort_stages[i + 1].dynamic_offset + 16 <= Len(sort_uniform_buffer)
              /\ ParamBlock(i).element_count = padded_count
              /\ ParamBlock(i) = [element_count       |-> padded_count,
                                  block_size          |-> PlanPairs[i + 1][1],
                                  comparison_distance |-> PlanPairs[i + 1][2],
                                  pad                 |-> 0]
              /\ ParamBlock(i).comparison_distance >= 1
              /\ ParamBlock(i).block_size >= 2 * ParamBlock(i).comparison_distance
              /\ \A k \in (256 * i + 17)..(256 * (i + 1)) :
                    k <= Len(sort_uniform_buffer) => sort_uniform_buffer[k] = 0

C4_Witness ==
    /\ Constructed
    /\ Len(sort_stages) >= 3
    /\ sort_stages[3].dynamic_offset = 512
    /\ ParamBlock(2) = [element_count |-> 4, block_size |-> 4,
                        comparison_distance |-> 1, pad |-> 0]

\* C16 as stated: the sort-uniform buffer is stage_count * 256 bytes long when
\* the plan has at least one stage and 256 bytes long when it has none; its
\* length is a multiple of 4.
C16_Original ==
    Constructed =>
        /\ Len(sort_uniform_buffer) =
              IF Len(sort_stages) >= 1 THEN Len(sort_stages) * 256 ELSE 256
        /\ Len(sort_uniform_buffer) % 4 = 0

\* C16 (amended): the sort-uniform buffer is (stage_count - 1) * 256 + 16 bytes
\* long when the plan has at least one stage, ending with the last stage's
\* 16-byte parameter block, and is a dummy of 256 zero bytes when the plan has
\* no stage; its length is a multiple of 4.
C16_BufferLength ==
    Constructed =>
        LET stage_count == Len(sort_stages)
        IN  /\ Len(sort_uniform_buffer) =
                  IF stage_count >= 1 THEN (stage_count - 1) * 256 + 16 ELSE 256
            /\ Len(sort_uniform_buffer) % 4 = 0
            /\ (stage_count >= 1) =>
                  sort_stages[stage_count].dynamic_offset + 16 = Len(sort_uniform_buffer)
            /\ (stage_count = 0) => sort_uniform_buffer = Zeros(256)

\* A pass for 2 Gaussians: one stage, a buffer of 16 bytes.
C16_Witness ==
    /\ Constructed
    /\ Len(sort_stages) = 1
    /\ Len(sort_uniform_buffer) = 16

\* C8 as stated: a pass constructed with 3 Gaussians has padded_count = 4 and
\* a sort plan of exactly 1 stage.
C8_Original ==
    (Constructed /\ gaussians_len = 3) =>
        (padded_count = 4 /\ Len(sort_stages) = 1)

\* C8 (amended): a pass constructed with 3 Gaussians has padded_count = 4 and a
\* sort plan of exactly 3 stages, (2,1), (4,2), (4,1).
C8_ThreeGaussians ==
    (Constructed /\ gaussians_len = 3) =>
        /\ padded_count = 4
        /\ Len(sort_stages) = 3
        /\ PlanPairs = << <<2, 1>>, <<4, 2>>, <<4, 1>> >>

C8_Witness == Constructed /\ gaussians_len = 3 /\ gaussian_count = 3

\* C10: padded_count N is the smallest power of two >= the Gaussian count g
\* (N = g when g is a power of two, N = 1 when g is 0 or 1), and
\* g <= N < 2 * max(g, 1).
C10_PaddedCount ==
    Constructed =>
        LET g == gaussian_count
            N == padded_count
        IN  /\ g = gaussians_len
            /\ IsPow2(N)
            /\ g <= N
            /\ \A e \in 0..30 : (Pow2(e) >= g) => (N <= Pow2(e))
            /\ (IsPow2(g) => N = g)
            /\ (g <= 1 => N = 1)
            /\ N < 2 * (IF g >= 1 THEN g ELSE 1)

C10_Witness == Constructed /\ gaussian_count = 5 /\ padded_count = 8

(* ----------------------- properties of the frames ---------------------- *)

\* The device has run a command of the given pipeline in the current frame.
Ran(pipeline) == \E k \in 1..gpu_pc : encoder[k].pipeline = pipeline

\* Every recorded sort pass of the current frame has run, after preprocess.
SortsFinished ==
    /\ pc = "gpu"
    /\ Ran("preprocess")
    /\ \A k \in 1..Len(encoder) : encoder[k].pipeline = "sort" => k <= gpu_pc

\* C3: running the bitonic network of the generated plan, stage by stage, on
\* a permutation of distinct live keys followed by 0xFFFFFFFF padding yields a
\* non-decreasing key sequence (the live keys in order, then the padding).
C3_NetworkSorts ==
    SortsFinished =>
        /\ \A x \in 1..(padded_count - 1) :
              KeyLeq(sort_keys_buffer[x], sort_keys_buffer[x + 1])
        /\ \A x \in 1..padded_count :
              sort_keys_buffer[x] =
                  IF x <= InstanceCount THEN << 0, x - 1 >> ELSE SENTINEL_KEY

C3_Witness ==
    /\ SortsFinished
    /\ padded_count = 8
    /\ InstanceCount = 5
    /\ sort_values_buffer[1] = 4
    /\ gpu_pc = 9

\* The next command of the current frame is a sort pass.
SortPassNext == HasCommand /\ CurrentCommand.pipeline = "sort"

\* The invocations of order, a sequence of invocation indices, run one after
\* the other on kv.
RECURSIVE RunInOrder(_, _, _, _, _)
RunInOrder(kv, order, element_count, block_size, comparison_distance) ==
    IF order = << >> THEN kv
    ELSE RunInOrder(
            sort_invocation(kv, Head(order), element_count, block_size,
                            comparison_distance),
            Tail(order), element_count, block_size, comparison_distance)

\* C17: in every sort stage (B, D) of the plan the pairs (i, i + D) of the
\* invocations k in [0, N/2) are pairwise disjoint, lie inside [0, N) and
\* cover each index of [0, N) exactly once; the invocations k >= N/2 that the
\* dispatch of ceil((N/2) / 256) workgroups launches change nothing; and the
\* stage's result is the same in whichever order its invocations run.
C17_DisjointPairs ==
    SortPassNext =>
        LET off  == CurrentCommand.dynamic_offset
            N    == ReadU32(sort_uniform_buffer, off)
            B    == ReadU32(sort_uniform_buffer, off + 4)
            D    == ReadU32(sort_uniform_buffer, off + 8)
            half == N \div 2
            kv   == [keys |-> sort_keys_buffer, values |-> sort_values_buffer]
            slots(k) == {sort_pair(k, D).i, sort_pair(k, D).j}
        IN  /\ N = padded_count
            /\ Launched(CurrentCommand) = div_ceil(half, 256) * 256
            /\ Launched(CurrentCommand) >= half
            /\ \A k \in 0..(half - 1) :
                  /\ 0 <= sort_pair(k, D).i
                  /\ sort_pair(k, D).i < sort_pair(k, D).j
                  /\ sort_pair(k, D).j = sort_pair(k, D).i + D
                  /\ sort_pair(k, D).j < N
            /\ \A k, l \in 0..(half - 1) : k # l => slots(k) \cap slots(l) = {}
            /\ UNION {slots(k) : k \in 0..(half - 1)} = 0..(N - 1)
            /\ \A k \in half..(Launched(CurrentCommand) - 1) :
                  /\ sort_pair(k, D).j >= N
                  /\ sort_invocation(kv, k, N, B, D) = kv
            /\ \A order \in Orderings(0..(half - 1)) :
                  RunInOrder(kv, order, N, B, D)
                      = sort_dispatch(kv, 0, Launched(CurrentCommand), N, B, D)

\* The stage (8, 2) is about to run on keys it will have to exchange.
C17_Witness ==
    /\ SortPassNext
    /\ padded_count = 8
    /\ gpu_pc = 7
    /\ ReadU32(sort_uniform_buffer, CurrentCommand.dynamic_offset + 8) = 2
    /\ KeyLess(sort_keys_buffer[4], sort_keys_buffer[2])

\* The Gaussians that survive culling under the view the shaders read.
Survivors ==
    {i \in 0..(uniform_buffer.gaussian_count - 1) : uniform_buffer.view[i + 1] # CULLED}

\* The depth key preprocess wrote for the splat in slot s of the current frame.
KeyOfSplat(s) == depth_to_u32(uniform_buffer.view[splat_buffer[s + 1]])

DepthOfSplat(s) == uniform_buffer.view[splat_buffer[s + 1]]

\* C5 as stated: when the active camera is absent in a frame, no command
\* (reset copy, clear_sort, preprocess, sort stage, render pass) is recorded
\* for that frame.
C5_Original ==
    (pc = "gpu" /\ ~camera.present) => encoder = << >>

\* C6: a pass constructed with 0 Gaussians records nothing in execute: no
\* copy, no compute pass, no render pass, the attachments are never acquired,
\* execute returns success, and the device's buffers stay as constructed, in
\* every frame.
C6_EmptyRecordsNothing ==
    (Constructed /\ gaussian_count = 0) =>
        /\ encoder = << >>
        /\ ~attachments_acquired
        /\ ~drawn.done
        /\ (pc = "gpu" => execute_result = "ok")
        /\ draw_indirect_buffer = DrawIndirectInit
        /\ sort_keys_buffer = << ZERO_KEY >>

C6_Witness ==
    /\ gaussians_len = 0
    /\ pc = "gpu"
    /\ camera.present
    /\ execute_result = "ok"
    /\ uniform_buffer.padded_count = 1

ComputePasses == {k \in 1..Len(encoder) : encoder[k].op = "compute_pass"}

\* C13: in every frame execute records for a pass with gaussian_count > 0 the
\* commands are, in this order, the indirect-draw reset copy, the clear_sort
\* pass, the preprocess pass, one sort pass per stage of the plan in increasing
\* plan index (stage s addressed by its dynamic offset 256 s, each exactly
\* once), and last the render pass; 2 + stage_count compute passes precede
\* the render pass.
C13_CommandOrder ==
    (pc = "gpu" /\ gaussian_count > 0) =>
        LET stage_count == Len(sort_stages)
        IN  /\ Len(encoder) = 4 + stage_count
            /\ encoder[1].op = "copy_buffer_to_buffer"
            /\ encoder[2].op = "compute_pass" /\ encoder[2].pipeline = "clear_sort"
            /\ encoder[3].op = "compute_pass" /\ encoder[3].pipeline = "preprocess"
            /\ \A s \in 1..stage_count :
                  /\ encoder[3 + s].op = "compute_pass"
                  /\ encoder[3 + s].pipeline = "sort"
                  /\ encoder[3 + s].dynamic_offset = 256 * (s - 1)
                  /\ encoder[3 + s].dynamic_offset = sort_stages[s].dynamic_offset
            /\ \A s, t \in 1..stage_count :
                  s < t => encoder[3 + s].dynamic_offset < encoder[3 + t].dynamic_offset
            /\ encoder[4 + stage_count].op = "render_pass"
            /\ \A k \in 1..Len(encoder) :
                  encoder[k].op = "render_pass" => k = Len(encoder)
            /\ ComputePasses = 2..(3 + stage_count)
            /\ Cardinality(ComputePasses) = 2 + stage_count
            /\ stage_count = Triangle(log2_u32(padded_count))

\* A frame recorded for 5 Gaussians: 8 compute passes, the last sort pass at
\* offset 5 * 256.
C13_Witness ==
    /\ pc = "gpu"
    /\ gaussian_count = 5
    /\ Len(encoder) = 10
    /\ encoder[9].pipeline = "sort"
    /\ encoder[9].dynamic_offset = 1280
    /\ encoder[10].op = "render_pass"

\* The survivors whose invocation has taken its slot in the current frame.
CountedThisFrame ==
    IF Ran("preprocess") THEN Survivors
    ELSE IF pass_running THEN Survivors \ pending
    ELSE {}

\* The slots held by invocations that have not written yet.
InflightSlots == {p[2] : p \in inflight}

\* The slots of the current frame whose invocation has written them.
WrittenSlots == (0..(InstanceCount - 1)) \ InflightSlots

\* The preprocess pass of the current frame is running or has ended.
PreprocessStarted == pc = "gpu" /\ (pass_running \/ Ran("preprocess"))

\* The slots handed out so far are pairwise distinct and are 0 .. c - 1 for
\* the c surviving invocations that have run; a written slot j holds its
\* invocation's splat, and, until a sort pass runs, its key and the value j.
SlotsDense ==
    PreprocessStarted =>
        /\ InflightSlots \subseteq 0..(InstanceCount - 1)
        /\ \A p, q \in inflight : p[2] = q[2] => p = q
        /\ \A p, q \in inflight : p[1] = q[1] => p = q
        /\ {p[1] : p \in inflight} \subseteq CountedThisFrame
        /\ Cardinality(CountedThisFrame) = InstanceCount
        /\ \A j \in WrittenSlots :
              /\ splat_buffer[j + 1] - 1 \in CountedThisFrame \ {p[1] : p \in inflight}
              /\ \A k \in WrittenSlots : splat_buffer[j + 1] = splat_buffer[k + 1] => j = k
              /\ (gpu_pc <= 3) =>
                    /\ sort_values_buffer[j + 1] = j
                    /\ sort_keys_buffer[j + 1] = KeyOfSplat(j)
        /\ Ran("preprocess") =>
              /\ InstanceCount = Cardinality(Survivors)
              /\ WrittenSlots = 0..(Cardinality(Survivors) - 1)
              /\ {splat_buffer[j + 1] - 1 : j \in WrittenSlots} = Survivors

\* The slots other than j keep their splat, key and value.
OnlySlotChanged(j) ==
    /\ \A x \in 1..Len(splat_buffer) : x # j + 1 => splat_buffer'[x] = splat_buffer[x]
    /\ \A x \in 1..Len(sort_keys_buffer) :
          x # j + 1 => sort_keys_buffer'[x] = sort_keys_buffer[x]
    /\ \A x \in 1..Len(sort_values_buffer) :
          x # j + 1 => sort_values_buffer'[x] = sort_values_buffer[x]
    /\ Len(splat_buffer') = Len(splat_buffer)
    /\ Len(sort_keys_buffer') = Len(sort_keys_buffer)
    /\ Len(sort_values_buffer') = Len(sort_values_buffer)

\* What one step of a running preprocess pass may change: an invocation that
\* is culled or out of range changes no buffer; a surviving one takes the
\* counter's value as its slot and adds 1 to the counter; a write touches the
\* writer's own slot only and stores values[j] = j.
InvocationStep ==
    (pass_running /\ pass_running') =>
        /\ (pending' # pending /\ inflight' = inflight) =>
              /\ UNCHANGED gpu_buffers
              /\ \A i \in pending \ pending' :
                    i >= uniform_buffer.gaussian_count \/ uniform_buffer.view[i + 1] = CULLED
        /\ (pending' # pending /\ inflight' # inflight) =>
              /\ \E i \in pending :
                    /\ pending' = pending \ {i}
                    /\ i \in Survivors
                    /\ inflight' = inflight \cup {<< i, InstanceCount >>}
              /\ draw_indirect_buffer' = [draw_indirect_buffer EXCEPT ![2] = @ + 1]
              /\ UNCHANGED << splat_buffer, sort_keys_buffer, sort_values_buffer >>
        /\ (pending' = pending /\ inflight' # inflight) =>
              \E p \in inflight :
                  /\ inflight' = inflight \ {p}
                  /\ OnlySlotChanged(p[2])
                  /\ splat_buffer'[p[2] + 1] = p[1] + 1
                  /\ sort_values_buffer'[p[2] + 1] = p[2]
                  /\ UNCHANGED draw_indirect_buffer

\* C14: under every interleaving of the preprocess invocations of a frame the
\* slots obtained by atomic increment by the surviving invocations are pairwise
\* distinct and are exactly 0 .. live_count - 1; each writes splat[j], keys[j]
\* and values[j] = j of its own slot j only; culled and out-of-range
\* invocations change neither the counter nor any splat, key or value slot.
C14_DenseSlots == []SlotsDense /\ [][InvocationStep]_vars

\* Both invocations hold a slot and neither has written: the later Gaussian
\* got slot 0.
C14_Witness ==
    /\ pass_running
    /\ inflight = {<< 0, 1 >>, << 1, 0 >>}
    /\ InstanceCount = 2

\* The clear_sort and preprocess passes of the current frame have run and no
\* sort pass has.
BeforeSorts == pc = "gpu" /\ gpu_pc = 3

\* seq lists every element of 0 .. n - 1 exactly once.
IsPermutation(seq, n) ==
    /\ Len(seq) = n
    /\ \A j \in 0..(n - 1) : \E k \in 1..n : seq[k] = j
    /\ \A k, l \in 1..n : seq[k] = seq[l] => k = l

C9_IndirectHeader ==
    Constructed =>
        /\ draw_indirect_buffer[1] = 6
        /\ draw_indirect_buffer[3] = 0
        /\ draw_indirect_buffer[4] = 0
        /\ (pc = "gpu" /\ gpu_pc >= 1) =>
              InstanceCount = Cardinality(CountedThisFrame)
        /\ drawn.done => drawn.header = << 6, Cardinality(Survivors), 0, 0 >>

\* A draw of one instance in a frame that follows one with two survivors
\* (slot 1 of the splat buffer still holds that frame's splat).
C9_Witness ==
    /\ drawn.done
    /\ drawn.header = << 6, 1, 0, 0 >>
    /\ Len(splat_buffer) >= 2
    /\ splat_buffer[2] # 0

====
